---- MODULE Spec2Model ----
(***************************************************************************)
(* Model of streamlit_app.py: the rule evaluator evaluate_file, the DXF    *)
(* area accumulator parse_dxf and the batch loop of main.                  *)
(*                                                                         *)
(* Encoding of Python values.                                              *)
(*  - An optional value is a sequence of length <= 1: None is <<>> and a   *)
(*    present value v is <<v>>.                                            *)
(*  - A string that the code searches (a geoname, a guidelines key) is the *)
(*    sequence of its characters; the kanji of "大牟田市" are written by    *)
(*    their readings "O","mu","ta","shi" (the module is ASCII).            *)
(*  - Areas and heights are integers (the code only compares them with     *)
(*    0 and with the thresholds, and adds them).                           *)
(*  - The dictionary keys 申請区分, 改善案, 不足情報 are the record fields   *)
(*    shinsei_kubun, kaizen_an, fusoku_joho.                               *)
(*  - "sep".join(parts) is the sequence of the parts it joins.             *)
(***************************************************************************)
EXTENDS Integers, Sequences, FiniteSets, TLC

VARIABLES
    last,            \* evaluate_file: the most recent call (optional)
    prev,            \* evaluate_file: what the call before it saw of area,
                     \* height and thresholds, and its category (optional)
    entities,        \* parse_dxf: the modelspace of the document read
    dxf_out,         \* parse_dxf: the returned triple (optional)
    pdfplumber,      \* FALSE when the import at lines 8-11 failed
    ezdxf,           \* FALSE when the import at lines 13-16 failed
    uploaded_files,  \* main: the files of this run, in upload order
    idx,             \* main: number of loop iterations completed
    results,         \* main: the rows appended so far
    calls,           \* main: what each evaluate_file call received/resolved
    pc               \* main: "start", "loop", "report", "idle"

vars == <<last, prev, entities, dxf_out, pdfplumber, ezdxf,
          uploaded_files, idx, results, calls, pc>>

None == <<>>
Some(v) == <<v>>

(***************************************************************************)
(* Bounds of the model.                                                    *)
(***************************************************************************)
MaxFiles == 2
MaxEntities == 2

(***************************************************************************)
(* guidelines (lines 30-48).                                               *)
(***************************************************************************)
FukuokaPrefecture ==
    <<"F","u","k","u","o","k","a"," ","P","r","e","f","e","c","t","u","r","e">>
Omuta == <<"O","mu","ta","shi">>

\* insertion order of the dictionary, which guidelines.keys() iterates
guidelines_keys == <<FukuokaPrefecture, Omuta>>

guidelines ==
    (FukuokaPrefecture :>
        [area_threshold |-> 500, height_threshold |-> 2,
         page_line_info |-> "P10 L5-L10"])
    @@
    (Omuta :>
        [area_threshold |-> 500, height_threshold |-> 2,
         page_line_info |-> "P4 L3-L8"])

\* the values of 申請区分
JOHO_FUSOKU == "joho_fusoku"            \* "情報不足"
KYOKA_SHINSEI == "kyoka_shinsei"        \* "許可申請"
FUYO_MATAWA_TODOKEDE == "fuyo_matawa_todokede"   \* "不要または届出"

\* the entries of missing_info
CHIMEI == "chimei"      \* "地名"
MENSEKI == "menseki"    \* "面積"
TAKASA == "takasa"      \* "高さ"

(***************************************************************************)
(* Python primitives.                                                      *)
(***************************************************************************)
\* key in s, for strings
Contains(key, s) ==
    \E i \in 0..(Len(s) - Len(key)) : SubSeq(s, i + 1, i + Len(key)) = key

\* truth value of an optional string or number: None, "" and 0 are false
TruthyStr(o) == o # None /\ o[1] # <<>>
TruthyNum(o) == o # None /\ o[1] # 0

(***************************************************************************)
(* evaluate_file (lines 140-178).                                          *)
(***************************************************************************)
RECURSIVE ScanKeysNoBreak(_, _, _)
ScanKeysNoBreak(i, geoname, jurisdiction) ==
    IF i > Len(guidelines_keys) THEN jurisdiction
    ELSE IF Contains(guidelines_keys[i], geoname)
         THEN ScanKeysNoBreak(i + 1, geoname, guidelines_keys[i])
         ELSE ScanKeysNoBreak(i + 1, geoname, jurisdiction)

\* the for loop of lines 147-150, from key number i on
RECURSIVE ScanKeys(_, _, _)
ScanKeys(i, geoname, jurisdiction) ==
    IF i > Len(guidelines_keys) THEN jurisdiction
    ELSE IF Contains(guidelines_keys[i], geoname)
         THEN guidelines_keys[i]
         ELSE ScanKeys(i + 1, geoname, jurisdiction)

\* lines 145-150
Jurisdiction(geoname) ==
    IF TruthyStr(geoname)
    THEN ScanKeys(1, geoname[1], FukuokaPrefecture)
    ELSE FukuokaPrefecture

\* line 151
RuleSet(jurisdiction) ==
    IF jurisdiction \in DOMAIN guidelines
    THEN guidelines[jurisdiction]
    ELSE guidelines[FukuokaPrefecture]

missing_info_NoZero(geoname, area, height) ==
    (IF geoname = None \/ geoname = Some(<<>>) THEN <<CHIMEI>> ELSE <<>>)
    \o (IF area = None THEN <<MENSEKI>> ELSE <<>>)
    \o (IF height = None \/ height = Some(0) THEN <<TAKASA>> ELSE <<>>)

missing_info_Swapped(geoname, area, height) ==
    (IF area = None \/ area = Some(0) THEN <<MENSEKI>> ELSE <<>>)
    \o (IF geoname = None \/ geoname = Some(<<>>) THEN <<CHIMEI>> ELSE <<>>)
    \o (IF height = None \/ height = Some(0) THEN <<TAKASA>> ELSE <<>>)

\* lines 153-159
missing_info(geoname, area, height) ==
    (IF geoname = None \/ geoname = Some(<<>>) THEN <<CHIMEI>> ELSE <<>>)
    \o (IF area = None \/ area = Some(0) THEN <<MENSEKI>> ELSE <<>>)
    \o (IF height = None \/ height = Some(0) THEN <<TAKASA>> ELSE <<>>)

PermitCondition_Strict(area, height, g) ==
    area > g.area_threshold \/ height > g.height_threshold

PermitCondition_WrongKey(area, height, g) ==
    area >= g.height_threshold \/ height >= g.height_threshold

\* line 165
PermitCondition(area, height, g) ==
    area >= g.area_threshold \/ height >= g.height_threshold

\* the two suggestion texts of lines 169 and 171, with the threshold they embed
AreaSuggestion(g) == <<"reduce_area_below", g.area_threshold>>
HeightSuggestion(g) == <<"keep_height_below", g.height_threshold>>

suggestions_HeightFirst(area, height, g) ==
    (IF height >= g.height_threshold THEN <<HeightSuggestion(g)>> ELSE <<>>)
    \o (IF area >= g.area_threshold THEN <<AreaSuggestion(g)>> ELSE <<>>)

\* lines 167-171
suggestions(area, height, g) ==
    (IF area >= g.area_threshold THEN <<AreaSuggestion(g)>> ELSE <<>>)
    \o (IF height >= g.height_threshold THEN <<HeightSuggestion(g)>> ELSE <<>>)

\* lines 152-178, given the rule-set g resolved at line 151
Classify(geoname, area, height, g) ==
    LET missing == missing_info(geoname, area, height) IN
    IF missing # <<>>
    THEN [shinsei_kubun |-> JOHO_FUSOKU,
          kaizen_an |-> None,
          fusoku_joho |-> Some(missing)]
    ELSE IF PermitCondition(area[1], height[1], g)
    THEN LET s == suggestions(area[1], height[1], g) IN
         [shinsei_kubun |-> KYOKA_SHINSEI,
          kaizen_an |-> IF s # <<>> THEN Some(s) ELSE None,
          fusoku_joho |-> None]
    ELSE [shinsei_kubun |-> FUYO_MATAWA_TODOKEDE,
          kaizen_an |-> None,
          fusoku_joho |-> None]

evaluate_file(data) ==
    Classify(data.geoname, data.area, data.height,
             RuleSet(Jurisdiction(data.geoname)))

\* one call of evaluate_file, with the locals jurisdiction and g it computed
EvalCall(data) ==
    [data |-> data,
     jurisdiction |-> Jurisdiction(data.geoname),
     g |-> RuleSet(Jurisdiction(data.geoname)),
     result |-> evaluate_file(data)]

(***************************************************************************)
(* Inputs of evaluate_file.                                                *)
(***************************************************************************)
GeonameInputs ==
    {None, Some(<<>>),
     Some(Omuta \o <<"chu","o">>), Some(<<"O","mu","ta">>), Some(<<"Ku","ru","me","shi">>),
     Some(FukuokaPrefecture), Some(Omuta \o FukuokaPrefecture)}
AreaInputs == {None} \cup {Some(v) : v \in {-1, 0, 1, 499, 500, 600}}
HeightInputs == {None} \cup {Some(v) : v \in {-1, 0, 1, 2}}

EvalInputs ==
    [file : {"f"}, geoname : GeonameInputs, area : AreaInputs,
     height : HeightInputs]

(***************************************************************************)
(* parse_dxf (lines 109-137).                                              *)
(* An entity is a record of what each of its members yields; None stands   *)
(* for a member whose evaluation raises:                                   *)
(*   dxftype  e.dxftype()                                                  *)
(*   paths    e.paths, a sequence of path.area values (each may raise)     *)
(*   closed   e.closed                                                     *)
(*   area     e.area()                                                     *)
(***************************************************************************)
NoneTriple == [geoname |-> None, area |-> None, height |-> None]

\* lines 121-125: the paths of one HATCH, from path number i on
RECURSIVE PathsSum(_, _, _)
PathsSum(paths, i, total) ==
    IF i > Len(paths) THEN total
    ELSE PathsSum(paths, i + 1,
                  IF paths[i] # None THEN total + paths[i][1] ELSE total)

\* lines 120-132: one iteration of the loop over the modelspace;
\* raised = an exception left the iteration
EntityStep(e, total) ==
    IF e.dxftype = None THEN [raised |-> TRUE, total |-> total]
    ELSE IF e.dxftype[1] = "HATCH"
    THEN IF e.paths = None THEN [raised |-> TRUE, total |-> total]
         ELSE [raised |-> FALSE, total |-> PathsSum(e.paths[1], 1, total)]
    ELSE IF e.dxftype[1] \in {"LWPOLYLINE", "POLYLINE"}
    THEN [raised |-> FALSE,
          total |-> IF e.closed # None /\ e.closed[1] /\ e.area # None
                    THEN total + e.area[1] ELSE total]
    ELSE [raised |-> FALSE, total |-> total]

\* lines 119-132: the loop from entity number i on; None when an exception
\* left the loop (control passes to line 135)
RECURSIVE Accumulate(_, _, _)
Accumulate(msp, i, total) ==
    IF i > Len(msp) THEN Some(total)
    ELSE LET r == EntityStep(msp[i], total) IN
         IF r.raised THEN None ELSE Accumulate(msp, i + 1, r.total)

\* file_bytes is what ezdxf.read makes of it: None when reading raises,
\* otherwise the entities of the modelspace
parse_dxf(file_bytes) ==
    IF ~ezdxf THEN NoneTriple
    ELSE IF file_bytes = None THEN NoneTriple
    ELSE LET total_area == Accumulate(file_bytes[1], 1, 0) IN
         [geoname |-> None,
          area |-> IF total_area # None /\ total_area[1] > 0
                   THEN total_area ELSE None,
          height |-> None]

Entity(t, p, c, a) == [dxftype |-> t, paths |-> p, closed |-> c, area |-> a]
Hatch(p) == Entity(Some("HATCH"), p, None, None)
Polyline(t, c, a) == Entity(Some(t), Some(<<>>), c, a)

EntityShapes ==
    {Hatch(Some(<<Some(2)>>)), Hatch(Some(<<None, Some(1)>>)), Hatch(None),
     Polyline("LWPOLYLINE", Some(TRUE), Some(3)),
     Polyline("LWPOLYLINE", Some(FALSE), Some(3)),
     Polyline("LWPOLYLINE", None, Some(3)),
     Polyline("LWPOLYLINE", Some(TRUE), None),
     Polyline("LWPOLYLINE", Some(TRUE), Some(0)),
     Polyline("POLYLINE", Some(TRUE), Some(1)),
     Entity(Some("TEXT"), None, None, None),
     Entity(None, Some(<<Some(2)>>), Some(TRUE), Some(3))}

SeqsUpTo(S, n) == UNION {[1..k -> S] : k \in 0..n}

Modelspaces == SeqsUpTo(EntityShapes, MaxEntities)

(***************************************************************************)
(* parse_pdf (lines 88-106).                                               *)
(* file is what pdfplumber makes of it: None when opening it or extracting *)
(* a page raises, otherwise the triple that extract_geoname_from_text,     *)
(* extract_area_from_text and extract_height_from_text find in its text.   *)
(***************************************************************************)
parse_pdf(file) ==
    IF ~pdfplumber THEN NoneTriple
    ELSE IF file = None THEN NoneTriple
    ELSE file[1]

PdfContents ==
    {None,
     Some(NoneTriple),
     Some([geoname |-> Some(Omuta \o <<"chu","o">>), area |-> Some(500),
           height |-> Some(1)]),
     Some([geoname |-> None, area |-> None, height |-> Some(2)])}

DxfContents ==
    {None, Some(<<>>),
     Some(<<Polyline("LWPOLYLINE", Some(TRUE), Some(3))>>),
     Some(<<Polyline("LWPOLYLINE", Some(TRUE), Some(3)), Hatch(None)>>)}

(***************************************************************************)
(* main (lines 233-292).                                                   *)
(***************************************************************************)
\* str.lower, on the characters the file names use
LowerChar(c) ==
    CASE c = "P" -> "p" [] c = "D" -> "d" [] c = "F" -> "f" [] c = "X" -> "x"
      [] OTHER -> c
Lower(s) == [i \in 1..Len(s) |-> LowerChar(s[i])]

\* str.endswith
EndsWith(s, suffix) ==
    Len(s) >= Len(suffix)
    /\ SubSeq(s, Len(s) - Len(suffix) + 1, Len(s)) = suffix

FileNames ==
    {<<"a", ".", "p", "d", "f">>, <<"b", ".", "D", "X", "F">>,
     <<"c", ".", "j", "w", "w">>}

FileSeqs == SeqsUpTo([name : FileNames], MaxFiles)

\* what st.text_input and st.number_input(min_value=0.0) can return
TextInputs == {<<>>, <<"Ku","ru","me","shi">>}
NumberInputs == {0, 1}

\* lines 248-251
Extract(file, pdf, dxf) ==
    IF EndsWith(Lower(file.name), <<".", "p", "d", "f">>) THEN parse_pdf(pdf)
    ELSE IF EndsWith(Lower(file.name), <<".", "d", "x", "f">>)
    THEN parse_dxf(dxf)
    ELSE NoneTriple

\* lines 254-259 and 260-265
Data(file, parsed, typed, area_in, height_in) ==
    [file |-> file.name,
     geoname |-> IF ~TruthyStr(parsed.geoname) THEN Some(typed)
                 ELSE parsed.geoname,
     area |-> IF ~TruthyNum(parsed.area) THEN Some(area_in) ELSE parsed.area,
     height |-> IF ~TruthyNum(parsed.height) THEN Some(height_in)
                ELSE parsed.height]

main_jurisdiction_Equal(geoname) ==
    IF TruthyStr(geoname) /\ geoname[1] \in DOMAIN guidelines
    THEN geoname[1] ELSE FukuokaPrefecture

\* the for loop of lines 270-273, from key number i on
RECURSIVE MainScanKeys(_, _)
MainScanKeys(i, geoname) ==
    IF i > Len(guidelines_keys) THEN FukuokaPrefecture
    ELSE IF Contains(guidelines_keys[i], geoname) THEN guidelines_keys[i]
    ELSE MainScanKeys(i + 1, geoname)

\* lines 268-273
main_jurisdiction(geoname) ==
    IF TruthyStr(geoname) THEN MainScanKeys(1, geoname[1])
    ELSE FukuokaPrefecture

\* lines 274-275: result.update(data); result["jurisdiction"] = jurisdiction
Row(result, data, jurisdiction) ==
    [shinsei_kubun |-> result.shinsei_kubun,
     kaizen_an |-> result.kaizen_an,
     fusoku_joho |-> result.fusoku_joho,
     file |-> data.file,
     geoname |-> data.geoname,
     area |-> data.area,
     height |-> data.height,
     jurisdiction |-> jurisdiction]

AppendRow_SkipIncomplete(rows, row) ==
    IF row.shinsei_kubun = JOHO_FUSOKU THEN rows ELSE Append(rows, row)

\* line 276
AppendRow(rows, row) == Append(rows, row)

\* lines 239-241, 291-292
Start ==
    /\ pc = "start"
    /\ IF uploaded_files # <<>>
       THEN pc' = "loop" /\ results' = <<>> /\ idx' = 0 /\ calls' = <<>>
       ELSE pc' = "idle" /\ UNCHANGED <<results, idx, calls>>
    /\ UNCHANGED <<last, prev, entities, dxf_out, pdfplumber, ezdxf,
                   uploaded_files>>

\* lines 242-283: one iteration of the loop
ProcessFile ==
    /\ pc = "loop"
    /\ idx < Len(uploaded_files)
    /\ \E pdf \in PdfContents, dxf \in DxfContents, typed \in TextInputs,
          area_in \in NumberInputs, height_in \in NumberInputs :
          LET file == uploaded_files[idx + 1]
              parsed == Extract(file, pdf, dxf)
              data == Data(file, parsed, typed, area_in, height_in)
              result == evaluate_file(data)
              jurisdiction == main_jurisdiction(data.geoname)
          IN /\ results' = AppendRow(results, Row(result, data, jurisdiction))
             /\ calls' = Append(calls, EvalCall(data))
    /\ idx' = idx + 1
    /\ UNCHANGED <<last, prev, entities, dxf_out, pdfplumber, ezdxf,
                   uploaded_files, pc>>

\* lines 284-290: the loop is over, the table and the reports are built
Report ==
    /\ pc = "loop"
    /\ idx = Len(uploaded_files)
    /\ pc' = "report"
    /\ UNCHANGED <<last, prev, entities, dxf_out, pdfplumber, ezdxf,
                   uploaded_files, idx, results, calls>>

\* the script runs again from line 233 when the uploader changes
Rerun ==
    /\ pc \in {"report", "idle"}
    /\ pc' = "start"
    /\ uploaded_files' \in FileSeqs
    /\ UNCHANGED <<last, prev, entities, dxf_out, pdfplumber, ezdxf,
                   idx, results, calls>>

(***************************************************************************)
(* Specifications.                                                         *)
(***************************************************************************)
EvalIdle == last = None /\ prev = None
DxfIdle == entities = <<>> /\ dxf_out = None
MainIdle ==
    uploaded_files = <<>> /\ idx = 0 /\ results = <<>> /\ calls = <<>>
    /\ pc = "start"

\* the batch run of main
Init ==
    /\ EvalIdle /\ DxfIdle
    /\ pdfplumber \in BOOLEAN /\ ezdxf \in BOOLEAN
    /\ uploaded_files \in FileSeqs
    /\ idx = 0 /\ results = <<>> /\ calls = <<>> /\ pc = "start"

Next == Start \/ ProcessFile \/ Report \/ Rerun

Spec == Init /\ [][Next]_vars

\* calls of evaluate_file on arbitrary inputs
Seen(call) ==
    [area |-> call.data.area, height |-> call.data.height,
     area_threshold |-> call.g.area_threshold,
     height_threshold |-> call.g.height_threshold,
     shinsei_kubun |-> call.result.shinsei_kubun]

Evaluate ==
    /\ \E data \in EvalInputs : last' = Some(EvalCall(data))
    /\ prev' = IF last = None THEN None ELSE Some(Seen(last[1]))
    /\ UNCHANGED <<entities, dxf_out, pdfplumber, ezdxf, uploaded_files, idx,
                   results, calls, pc>>

InitEval ==
    /\ EvalIdle /\ DxfIdle /\ MainIdle
    /\ pdfplumber = TRUE /\ ezdxf = TRUE

NextEval == Evaluate

SpecEval == InitEval /\ [][NextEval]_vars

\* one call of parse_dxf on an arbitrary modelspace
ParseDxf ==
    /\ dxf_out = None
    /\ dxf_out' = Some(parse_dxf(Some(entities)))
    /\ UNCHANGED <<last, prev, entities, pdfplumber, ezdxf, uploaded_files,
                   idx, results, calls, pc>>

InitDxf ==
    /\ EvalIdle /\ MainIdle
    /\ entities \in Modelspaces /\ dxf_out = None
    /\ pdfplumber = TRUE /\ ezdxf \in BOOLEAN

NextDxf == ParseDxf

SpecDxf == InitDxf /\ [][NextDxf]_vars

(***************************************************************************)
(* Properties of evaluate_file, checked under SpecEval.                    *)
(***************************************************************************)
Called == last # None
Geoname == last[1].data.geoname
Area == last[1].data.area
Height == last[1].data.height
Category == last[1].result.shinsei_kubun
Improvements == last[1].result.kaizen_an
MissingFields == last[1].result.fusoku_joho
AreaThreshold == last[1].g.area_threshold
HeightThreshold == last[1].g.height_threshold

\* two calls that saw the same area, height and thresholds, neither of them
\* classified as insufficient information, returned the same category
SameFactsSameCategory ==
    (/\ Called /\ prev # None
     /\ Category # JOHO_FUSOKU /\ prev[1].shinsei_kubun # JOHO_FUSOKU
     /\ prev[1].area = Area /\ prev[1].height = Height
     /\ prev[1].area_threshold = AreaThreshold
     /\ prev[1].height_threshold = HeightThreshold)
    => prev[1].shinsei_kubun = Category

\* C1, as stated: the category is "情報不足" if and only if geoname, area or
\* height is missing (None; an empty geoname is taken as missing too).
\* Refuted by area = 0, which is present.
C1_Original ==
    Called =>
        (Category = JOHO_FUSOKU
            <=> (~TruthyStr(Geoname) \/ Area = None \/ Height = None))

\* C1, amended: the category is "情報不足" if and only if geoname is None or
\* the empty string, or area is None or 0, or height is None or 0; otherwise
\* the category is determined by area, height and the thresholds alone: two
\* calls with the same area, height and thresholds return the same category.
C1_Amended ==
    /\ Called =>
        (Category = JOHO_FUSOKU
            <=> \/ Geoname = None \/ Geoname = Some(<<>>)
                \/ Area = None \/ Area = Some(0)
                \/ Height = None \/ Height = Some(0))
    /\ SameFactsSameCategory

C1_Witness ==
    /\ Called /\ prev # None
    /\ Geoname = Some(Omuta \o <<"chu","o">>)
    /\ Area = Some(0) /\ Height = Some(1)
    /\ Category = JOHO_FUSOKU
    /\ prev[1].shinsei_kubun = KYOKA_SHINSEI

\* C2, as stated: with geoname, area and height all present (not None, the
\* geoname not empty), if area >= area_threshold or
\* height >= height_threshold the category is "許可申請"; and "許可申請" is
\* never returned when both are strictly below their thresholds.  Refuted
\* by area = 0 with height = 2.
C2_Original ==
    /\ (/\ Called /\ TruthyStr(Geoname) /\ Area # None /\ Height # None
        /\ (Area[1] >= AreaThreshold \/ Height[1] >= HeightThreshold))
       => Category = KYOKA_SHINSEI
    /\ (Called /\ Category = KYOKA_SHINSEI)
       => ~(Area[1] < AreaThreshold /\ Height[1] < HeightThreshold)

\* C2, amended: with geoname present and non-empty and area and height
\* present and different from 0, if area >= area_threshold or
\* height >= height_threshold (equality counts) the category is "許可申請";
\* and "許可申請" is never returned when both are strictly below their
\* thresholds.
C2_Amended ==
    /\ (/\ Called /\ TruthyStr(Geoname) /\ TruthyNum(Area) /\ TruthyNum(Height)
        /\ (Area[1] >= AreaThreshold \/ Height[1] >= HeightThreshold))
       => Category = KYOKA_SHINSEI
    /\ (Called /\ Category = KYOKA_SHINSEI)
       => ~(Area[1] < AreaThreshold /\ Height[1] < HeightThreshold)

C2_Witness ==
    /\ Called /\ TruthyStr(Geoname)
    /\ Area = Some(500) /\ Height = Some(1)
    /\ Category = KYOKA_SHINSEI

InSeq(x, s) == \E i \in 1..Len(s) : s[i] = x

\* C3: whenever the category is "許可申請", the improvements hold the area
\* suggestion iff area >= area_threshold and the height suggestion iff
\* height >= height_threshold, at least one of them and nothing else, the
\* area suggestion first; "大牟田市中央", 600, 1 gives exactly the area
\* suggestion with threshold 500.
C3_Suggestions ==
    /\ (Called /\ Category = KYOKA_SHINSEI) =>
        /\ Improvements # None
        /\ LET s == Improvements[1]
               a == <<"reduce_area_below", AreaThreshold>>
               h == <<"keep_height_below", HeightThreshold>>
           IN /\ InSeq(a, s) <=> Area[1] >= AreaThreshold
              /\ InSeq(h, s) <=> Height[1] >= HeightThreshold
              /\ s \in {<<a>>, <<h>>, <<a, h>>}
    /\ (/\ Called /\ Geoname = Some(Omuta \o <<"chu","o">>)
        /\ Area = Some(600) /\ Height = Some(1))
       => /\ Category = KYOKA_SHINSEI
          /\ Improvements = Some(<< <<"reduce_area_below", 500>> >>)

C3_Witness ==
    /\ Called /\ Category = KYOKA_SHINSEI
    /\ Area = Some(600) /\ Height = Some(2)
    /\ Len(Improvements[1]) = 2

\* C4, as stated: with geoname present, 0 < area < area_threshold and
\* 0 < height < height_threshold the category is notification_required, a
\* category distinct from no_permit_required; every result is in one of
\* the four categories.  Refuted: the code returns the single label
\* "不要または届出" (not required, or notification).
C4_Original ==
    /\ (/\ Called /\ TruthyStr(Geoname) /\ Area # None /\ Height # None
        /\ 0 < Area[1] /\ Area[1] < AreaThreshold
        /\ 0 < Height[1] /\ Height[1] < HeightThreshold)
       => Category = "notification_required"
    /\ Called =>
        Category \in {JOHO_FUSOKU, KYOKA_SHINSEI, "notification_required",
                      "no_permit_required"}

\* C4, amended: with geoname present (and not empty), 0 < area < area_threshold
\* and 0 < height < height_threshold the category is "不要または届出", the one
\* category the code has for both "not required" and "notification"; every
\* result is in exactly one of the three categories "情報不足", "許可申請",
\* "不要または届出".
C4_Amended ==
    /\ (/\ Called /\ TruthyStr(Geoname) /\ Area # None /\ Height # None
        /\ 0 < Area[1] /\ Area[1] < AreaThreshold
        /\ 0 < Height[1] /\ Height[1] < HeightThreshold)
       => Category = FUYO_MATAWA_TODOKEDE
    /\ Called =>
        Category \in {JOHO_FUSOKU, KYOKA_SHINSEI, FUYO_MATAWA_TODOKEDE}

C4_Witness ==
    /\ Called /\ Geoname = Some(<<"Ku","ru","me","shi">>)
    /\ Area = Some(499) /\ Height = Some(1)
    /\ Category = FUYO_MATAWA_TODOKEDE

\* C5, as stated: when the category is "情報不足" the missing-fields output
\* names exactly the fields that are absent (None), in the order geoname,
\* area, height, and the improvements are empty; in every other category the
\* missing-fields output is empty.  Refuted by area = 0, which is named.
C5_Original ==
    /\ (Called /\ Category = JOHO_FUSOKU) =>
        /\ MissingFields =
             Some((IF Geoname = None THEN <<CHIMEI>> ELSE <<>>)
                  \o (IF Area = None THEN <<MENSEKI>> ELSE <<>>)
                  \o (IF Height = None THEN <<TAKASA>> ELSE <<>>))
        /\ Improvements = None
    /\ (Called /\ Category # JOHO_FUSOKU) => MissingFields = None

\* C5, amended: when the category is "情報不足" the missing-fields output
\* names exactly the fields that are None, or empty (geoname), or 0 (area,
\* height), in the order geoname, area, height, and the improvements are
\* empty; for (None, None, None) all three are named; in every other category
\* the missing-fields output is empty.
C5_Amended ==
    /\ (Called /\ Category = JOHO_FUSOKU) =>
        /\ MissingFields =
             Some((IF ~TruthyStr(Geoname) THEN <<CHIMEI>> ELSE <<>>)
                  \o (IF ~TruthyNum(Area) THEN <<MENSEKI>> ELSE <<>>)
                  \o (IF ~TruthyNum(Height) THEN <<TAKASA>> ELSE <<>>))
        /\ Improvements = None
    /\ (Called /\ Geoname = None /\ Area = None /\ Height = None) =>
        MissingFields = Some(<<CHIMEI, MENSEKI, TAKASA>>)
    /\ (Called /\ Category # JOHO_FUSOKU) => MissingFields = None

C5_Witness ==
    /\ Called /\ Geoname = None /\ Area = None /\ Height = None
    /\ Category = JOHO_FUSOKU
    /\ MissingFields = Some(<<CHIMEI, MENSEKI, TAKASA>>)

\* the configured names that occur in a string, by position in the table
Matching(s) ==
    {i \in 1..Len(guidelines_keys) : Contains(guidelines_keys[i], s)}

\* C6: a geoname that is present and contains a configured name resolves to
\* the first such name in the table's insertion order; None, the empty
\* string and a geoname containing no configured name resolve to
\* "Fukuoka Prefecture"; the resolved jurisdiction is a key of the table and
\* its rule-set is the one used.
C6_Resolution ==
    Called =>
        /\ IF TruthyStr(Geoname) /\ Matching(Geoname[1]) # {}
           THEN \E i \in Matching(Geoname[1]) :
                    /\ \A j \in Matching(Geoname[1]) : i <= j
                    /\ last[1].jurisdiction = guidelines_keys[i]
           ELSE last[1].jurisdiction = FukuokaPrefecture
        /\ last[1].jurisdiction \in DOMAIN guidelines
        /\ last[1].g = guidelines[last[1].jurisdiction]

C6_Witness ==
    /\ Called /\ Geoname = Some(Omuta \o FukuokaPrefecture)
    /\ last[1].jurisdiction = FukuokaPrefecture

\* C9: an area or height that is present but not positive (zero or negative)
\* is classified "情報不足".  The code violates it for negative values.
C9_NonPositive ==
    (/\ Called
     /\ \/ (Area # None /\ Area[1] <= 0)
        \/ (Height # None /\ Height[1] <= 0))
    => Category = JOHO_FUSOKU

(***************************************************************************)
(* Properties of parse_dxf, checked under SpecDxf.                         *)
(***************************************************************************)
\* what one entity contributes when each unreadable part of it is skipped
\* on its own
ReadableArea(e) ==
    IF e.dxftype = None THEN 0
    ELSE IF e.dxftype[1] = "HATCH"
    THEN IF e.paths = None THEN 0 ELSE PathsSum(e.paths[1], 1, 0)
    ELSE IF e.dxftype[1] \in {"LWPOLYLINE", "POLYLINE"}
    THEN IF e.closed = Some(TRUE) /\ e.area # None THEN e.area[1] ELSE 0
    ELSE 0

RECURSIVE ReadableSum(_, _)
ReadableSum(msp, i) ==
    IF i > Len(msp) THEN 0 ELSE ReadableArea(msp[i]) + ReadableSum(msp, i + 1)

\* C8: the area parse_dxf returns is the sum of the areas of the readable
\* HATCH paths and readable closed polylines, None when the sum is not
\* positive; a malformed entity never loses the area of the others.  The
\* code violates it when dxftype() or e.paths raises.
C8_PartialResults ==
    (dxf_out # None /\ ezdxf) =>
        dxf_out[1].area =
            IF ReadableSum(entities, 1) > 0
            THEN Some(ReadableSum(entities, 1)) ELSE None

(***************************************************************************)
(* Properties of main, checked under Spec.                                 *)
(***************************************************************************)
\* C7: while the loop runs there is one row per file processed, and once it
\* has finished there is exactly one row per uploaded file, in upload order,
\* each carrying its file's name, whatever the extraction did.
C7_OneRowPerFile ==
    /\ pc = "loop" => Len(results) = idx
    /\ pc = "report" =>
        /\ Len(results) = Len(uploaded_files)
        /\ \A i \in 1..Len(uploaded_files) :
               results[i].file = uploaded_files[i].name

C7_Witness ==
    /\ pc = "report" /\ ~pdfplumber
    /\ Len(uploaded_files) = 2
    /\ uploaded_files[1].name = <<"a", ".", "p", "d", "f">>
    /\ uploaded_files[2].name = <<"b", ".", "D", "X", "F">>
    /\ results[1].shinsei_kubun = JOHO_FUSOKU
    /\ results[2].shinsei_kubun = FUYO_MATAWA_TODOKEDE

\* C10: every row records the jurisdiction that evaluate_file resolved for
\* that file, whose rule-set it used, and the geoname, area and height that
\* were passed to evaluate_file.
C10_SameJurisdiction ==
    /\ Len(calls) = Len(results)
    /\ \A i \in 1..Len(results) :
        /\ results[i].jurisdiction = calls[i].jurisdiction
        /\ calls[i].g = guidelines[results[i].jurisdiction]
        /\ results[i].geoname = calls[i].data.geoname
        /\ results[i].area = calls[i].data.area
        /\ results[i].height = calls[i].data.height
        /\ results[i].shinsei_kubun = calls[i].result.shinsei_kubun

C10_Witness ==
    /\ pc = "report" /\ Len(results) = 2
    /\ results[1].jurisdiction = Omuta
    /\ results[2].jurisdiction = FukuokaPrefecture
    /\ results[2].geoname = Some(<<"Ku","ru","me","shi">>)

====
